---- MODULE Spec2Model ----
(***************************************************************************)
(* Model of the three scripts of the repository:                           *)
(*   02_backend/flask/basic_app.py     in-memory CRUD service (Flask)      *)
(*   02_backend/fastapi/basic_app.py   in-memory CRUD service (FastAPI)    *)
(*   01_foundations/web_fundamentals/http_demo.py   raw HTTP client/parser *)
(*                                                                         *)
(* Spec        the CRUD services, one request handled at a time            *)
(* SpecHistory the same, remembering which identifiers were deleted        *)
(* SpecParse   parse_http_response applied to response texts               *)
(* SpecRequest make_http_request building and sending the request text     *)
(***************************************************************************)
EXTENDS Integers, Sequences, FiniteSets, TLC

VARIABLES
    svc,            \* which script the process runs: "flask" or "fastapi"
    users,          \* the global list users
    posts,          \* the global list posts
    req,            \* the request being answered
    resp,           \* the answer to it
    deleted_users,  \* history: identifiers of the users deleted so far
    deleted_posts,  \* history: identifiers of the posts deleted so far
    response,       \* parse_http_response: its argument (a text)
    parsed,         \* parse_http_response: its result, <<>> before the call
    call,           \* make_http_request: its arguments
    sample,         \* parse_http_response: the parts the argument was made of
    wire,           \* make_http_request: what sendall wrote, <<>> before it
    spc,            \* make_http_request: where the call is
    sock,           \* make_http_request: the socket: "none", "open", "closed"
    closes,         \* make_http_request: how many times sock.close() ran
    exc,            \* make_http_request: an exception is propagating
    buf,            \* make_http_request: the bytes in response
    result,         \* make_http_request: <<>>, or the returned text in <<_>>
    net,            \* the chunks the peer sent that recv has not returned yet
    peer,           \* the peer's end: "open", "closed", or "reset"
    arrived,        \* history: the chunks recv returned, in order
    tpc,            \* per request thread: where its create handler is
    treq,           \* per request thread: the request it is answering
    tnew,           \* per request thread: its new_user / new_post, in <<_>>
    overlap         \* history: lists whose length two handlers read together

crud_vars == <<svc, users, posts, req, resp, deleted_users, deleted_posts>>
parse_vars == <<response, parsed, sample>>
request_vars == <<call, wire>>
socket_vars == <<spc, sock, closes, exc, buf, result, net, peer, arrived>>
thread_vars == <<tpc, treq, tnew, overlap>>
http_vars == <<response, parsed, sample, call, wire, socket_vars, thread_vars>>
vars == <<svc, users, posts, req, resp, deleted_users, deleted_posts,
          response, parsed, sample, call, wire,
          spc, sock, closes, exc, buf, result, net, peer, arrived,
          tpc, treq, tnew, overlap>>

\* The two request threads of the race.
Threads == {1, 2}

\* No call of make_http_request under way.
SocketIdle ==
    /\ spc = "idle"
    /\ sock = "none"
    /\ closes = 0
    /\ exc = FALSE
    /\ buf = <<>>
    /\ result = <<>>
    /\ net = <<>>
    /\ peer = "open"
    /\ arrived = <<>>

\* No request thread inside a handler.
ThreadsIdle ==
    /\ tpc = [t \in Threads |-> "idle"]
    /\ treq = [t \in Threads |-> <<>>]
    /\ tnew = [t \in Threads |-> <<>>]
    /\ overlap = {}

(***************************************************************************)
(* Bounds                                                                  *)
(***************************************************************************)
MaxUsers == 2
MaxPosts == 1

\* A field that the request does not carry. Identifiers are >= 0 in the model.
Missing == -1

\* Request bodies: the well-formed ones, and one body for each way a field
\* can be absent or invalid ("" : absent or empty; an email "" is no address).
ValidEmails == {"a@x", "b@x", "c@x"}
UserIds == 0..MaxUsers
PostIds == 0..MaxPosts

UserBodies ==
    [name : {"ann"}, email : ValidEmails, age : {30}]
        \cup [name : {""}, email : ValidEmails, age : {30}]
        \cup [name : {"ann"}, email : {""}, age : {30}]
        \cup [name : {"ann"}, email : ValidEmails, age : {Missing, 151}]
        \cup {[name |-> "", email |-> "", age |-> Missing]}

PostBodies ==
    [title : {"t1"}, content : {"c1"}, user_id : UserIds]
        \cup [title : {""}, content : {"c1"}, user_id : {0, 1}]
        \cup [title : {"t1"}, content : {""}, user_id : {0, 1}]
        \cup [title : {"t1"}, content : {"c1"}, user_id : {Missing}]

(***************************************************************************)
(* Helpers shared by the two services                                      *)
(***************************************************************************)
\* next((u for u in lst if u['id'] == id), None): the index of the first
\* record with that identifier, 0 for None.
FindById(lst, id) ==
    IF \E i \in 1..Len(lst) : lst[i].id = id
    THEN CHOOSE i \in 1..Len(lst) :
            /\ lst[i].id = id
            /\ \A j \in 1..(i - 1) : lst[j].id # id
    ELSE 0

\* A remove that drops every record with the identifier of lst[i].
RemoveEveryMatch(lst, i) ==
    LET keep(r) == r.id # lst[i].id IN SelectSeq(lst, keep)

\* lst.remove(lst[i]): list.remove drops the first element equal to its
\* argument; every element before index i has another identifier, so that
\* element is the one at i.
RemoveAt(lst, i) == SubSeq(lst, 1, i - 1) \o SubSeq(lst, i + 1, Len(lst))

\* A duplicate check whose scan starts one record too late.
EmailExistsSkipFirst(lst, email) == \E i \in 2..Len(lst) : lst[i].email = email

\* any(u['email'] == email for u in users)
EmailExists(lst, email) == \E i \in 1..Len(lst) : lst[i].email = email

\* An identifier that does not depend on the list.
NextIdConstant(lst) == 1

\* len(lst) + 1
NextId(lst) == Len(lst) + 1

Reply(status, body) == resp' = [status |-> status, body |-> body]
Request(op, id, q, body) == req' = [op |-> op, id |-> id, q |-> q, body |-> body]

(***************************************************************************)
(* Flask service                                                           *)
(***************************************************************************)
\* not data.get(k): the key is absent or its value is falsy
FlaskFalsy(v) == v = ""
FlaskFalsyInt(v) == v = Missing \/ v = 0

FlaskNewUser(data) ==
    [id |-> NextId(users), name |-> data.name, email |-> data.email]

Flask_create_user ==
    /\ svc = "flask"
    /\ \E data \in UserBodies :
        /\ Request("create_user", Missing, Missing, <<data>>)
        /\ IF FlaskFalsy(data.name) \/ FlaskFalsy(data.email)
           THEN Reply(400, <<>>) /\ UNCHANGED users
           ELSE IF EmailExists(users, data.email)
           THEN Reply(409, <<>>) /\ UNCHANGED users
           ELSE /\ Len(users) < MaxUsers
                /\ users' = Append(users, FlaskNewUser(data))
                /\ Reply(201, <<FlaskNewUser(data)>>)
    /\ UNCHANGED <<http_vars, svc, posts>>

\* get_user in both scripts: the first record with the identifier, or 404
GetById(lst, id) ==
    IF FindById(lst, id) # 0
    THEN [status |-> 200, body |-> <<lst[FindById(lst, id)]>>]
    ELSE [status |-> 404, body |-> <<>>]

Flask_get_user ==
    /\ svc = "flask"
    /\ \E user_id \in UserIds :
        /\ Request("get_user", user_id, Missing, <<>>)
        /\ resp' = GetById(users, user_id)
    /\ UNCHANGED <<http_vars, svc, users, posts>>

Flask_delete_user ==
    /\ svc = "flask"
    /\ \E user_id \in UserIds :
        /\ Request("delete_user", user_id, Missing, <<>>)
        /\ IF FindById(users, user_id) # 0
           THEN /\ users' = RemoveAt(users, FindById(users, user_id))
                /\ Reply(204, <<>>)
           ELSE Reply(404, <<>>) /\ UNCHANGED users
    /\ UNCHANGED <<http_vars, svc, posts>>

FlaskNewPost(data) ==
    [id |-> NextId(posts), title |-> data.title, content |-> data.content,
     user_id |-> data.user_id,
     author |-> users[FindById(users, data.user_id)].name]

Flask_create_post ==
    /\ svc = "flask"
    /\ \E data \in PostBodies :
        /\ Request("create_post", Missing, Missing, <<data>>)
        /\ IF \/ FlaskFalsy(data.title)
              \/ FlaskFalsy(data.content)
              \/ FlaskFalsyInt(data.user_id)
           THEN Reply(400, <<>>) /\ UNCHANGED posts
           ELSE IF FindById(users, data.user_id) = 0
           THEN Reply(404, <<>>) /\ UNCHANGED posts
           ELSE /\ Len(posts) < MaxPosts
                /\ posts' = Append(posts, FlaskNewPost(data))
                /\ Reply(201, <<FlaskNewPost(data)>>)
    /\ UNCHANGED <<http_vars, svc, users>>

Flask_get_post ==
    /\ svc = "flask"
    /\ \E post_id \in PostIds :
        /\ Request("get_post", post_id, Missing, <<>>)
        /\ resp' = GetById(posts, post_id)
    /\ UNCHANGED <<http_vars, svc, users, posts>>

\* The script registers /api/posts/<int:post_id> for GET only: a DELETE on it
\* is answered 405 by the router and reaches no handler.
Flask_delete_post ==
    /\ svc = "flask"
    /\ \E post_id \in PostIds :
        /\ Request("delete_post", post_id, Missing, <<>>)
        /\ Reply(405, <<>>)
    /\ UNCHANGED <<http_vars, svc, users, posts>>

(***************************************************************************)
(* FastAPI service                                                         *)
(***************************************************************************)
\* UserCreate: name min_length=1, email an address, age required in 0..150
UserCreateValid(user) ==
    /\ user.name # ""
    /\ user.email # ""
    /\ user.age # Missing /\ user.age >= 0 /\ user.age <= 150

\* PostCreate: title min_length=1, content min_length=1, user_id an int
PostCreateValid(post) ==
    /\ post.title # ""
    /\ post.content # ""
    /\ post.user_id # Missing

\* created_at (datetime.now()) is assigned by the server and read by no
\* handler; the model leaves it out of the records.
FastAPINewUser(user) ==
    [id |-> NextId(users), name |-> user.name, email |-> user.email,
     age |-> user.age]

FastAPI_create_user ==
    /\ svc = "fastapi"
    /\ \E user \in UserBodies :
        /\ Request("create_user", Missing, Missing, <<user>>)
        /\ IF ~UserCreateValid(user)
           THEN Reply(422, <<>>) /\ UNCHANGED users
           ELSE IF EmailExists(users, user.email)
           THEN Reply(409, <<>>) /\ UNCHANGED users
           ELSE /\ Len(users) < MaxUsers
                /\ users' = Append(users, FastAPINewUser(user))
                /\ Reply(201, <<FastAPINewUser(user)>>)
    /\ UNCHANGED <<http_vars, svc, posts>>

FastAPI_get_user ==
    /\ svc = "fastapi"
    /\ \E user_id \in UserIds :
        /\ Request("get_user", user_id, Missing, <<>>)
        /\ resp' = GetById(users, user_id)
    /\ UNCHANGED <<http_vars, svc, users, posts>>

FastAPI_delete_user ==
    /\ svc = "fastapi"
    /\ \E user_id \in UserIds :
        /\ Request("delete_user", user_id, Missing, <<>>)
        /\ IF FindById(users, user_id) # 0
           THEN /\ users' = RemoveAt(users, FindById(users, user_id))
                /\ Reply(204, <<>>)
           ELSE Reply(404, <<>>) /\ UNCHANGED users
    /\ UNCHANGED <<http_vars, svc, posts>>

\* get_user_by_id(user_id: int) is a dependency: its parameter user_id is
\* not a path parameter of POST /posts, so the framework reads it from the
\* query string (q), not from the request body.
\* The result is the index of the user, 0 when the dependency raises 404.
get_user_by_id(user_id) == FindById(users, user_id)

FastAPINewPost(post, user) ==
    [id |-> NextId(posts), title |-> post.title, content |-> post.content,
     user_id |-> post.user_id, author |-> users[user].name]

\* The framework solves the dependency before it validates the body:
\* a missing query parameter is a validation error (422), the dependency's
\* HTTPException is raised as soon as it runs (404), then the body (422).
FastAPI_create_post ==
    /\ svc = "fastapi"
    /\ \E post \in PostBodies, q \in UserIds \cup {Missing} :
        /\ Request("create_post", Missing, q, <<post>>)
        /\ IF q = Missing
           THEN Reply(422, <<>>) /\ UNCHANGED posts
           ELSE IF get_user_by_id(q) = 0
           THEN Reply(404, <<>>) /\ UNCHANGED posts
           ELSE IF ~PostCreateValid(post)
           THEN Reply(422, <<>>) /\ UNCHANGED posts
           ELSE /\ Len(posts) < MaxPosts
                /\ posts' = Append(posts, FastAPINewPost(post, get_user_by_id(q)))
                /\ Reply(201, <<FastAPINewPost(post, get_user_by_id(q))>>)
    /\ UNCHANGED <<http_vars, svc, users>>

FastAPI_get_post ==
    /\ svc = "fastapi"
    /\ \E post_id \in PostIds :
        /\ Request("get_post", post_id, Missing, <<>>)
        /\ resp' = GetById(posts, post_id)
    /\ UNCHANGED <<http_vars, svc, users, posts>>

FastAPI_delete_post ==
    /\ svc = "fastapi"
    /\ \E post_id \in PostIds :
        /\ Request("delete_post", post_id, Missing, <<>>)
        /\ IF FindById(posts, post_id) # 0
           THEN /\ posts' = RemoveAt(posts, FindById(posts, post_id))
                /\ Reply(204, <<>>)
           ELSE Reply(404, <<>>) /\ UNCHANGED posts
    /\ UNCHANGED <<http_vars, svc, users>>

(***************************************************************************)
(* Spec: one process of either script, answering one request at a time     *)
(***************************************************************************)
NoRequest == [op |-> "none", id |-> Missing, q |-> Missing, body |-> <<>>]
NoResponse == [status |-> 0, body |-> <<>>]

Init ==
    /\ svc \in {"flask", "fastapi"}
    /\ users = <<>>
    /\ posts = <<>>
    /\ req = NoRequest
    /\ resp = NoResponse
    /\ deleted_users = {}
    /\ deleted_posts = {}
    /\ response = <<>>
    /\ parsed = <<>>
    /\ sample = <<>>
    /\ call = <<>>
    /\ wire = <<>>
    /\ SocketIdle
    /\ ThreadsIdle

\* Spec keeps no history of the deletions.
Untracked == UNCHANGED <<deleted_users, deleted_posts>>

Next ==
    \/ Flask_create_user /\ Untracked
    \/ Flask_get_user /\ Untracked
    \/ Flask_delete_user /\ Untracked
    \/ Flask_create_post /\ Untracked
    \/ Flask_get_post /\ Untracked
    \/ Flask_delete_post /\ Untracked
    \/ FastAPI_create_user /\ Untracked
    \/ FastAPI_get_user /\ Untracked
    \/ FastAPI_delete_user /\ Untracked
    \/ FastAPI_create_post /\ Untracked
    \/ FastAPI_get_post /\ Untracked
    \/ FastAPI_delete_post /\ Untracked

Spec == Init /\ [][Next]_vars


(***************************************************************************)
(* SpecHistory: the same services answering create and delete requests,    *)
(* with the identifiers of the deleted records remembered                  *)
(***************************************************************************)
History ==
    /\ deleted_users' =
          IF req'.op = "delete_user" /\ resp'.status = 204
          THEN deleted_users \cup {req'.id} ELSE deleted_users
    /\ deleted_posts' =
          IF req'.op = "delete_post" /\ resp'.status = 204
          THEN deleted_posts \cup {req'.id} ELSE deleted_posts

NextHistory ==
    \/ Flask_create_user /\ History
    \/ Flask_delete_user /\ History
    \/ Flask_create_post /\ History
    \/ FastAPI_create_user /\ History
    \/ FastAPI_delete_user /\ History
    \/ FastAPI_create_post /\ History
    \/ FastAPI_delete_post /\ History

SpecHistory == Init /\ [][NextHistory]_vars

(***************************************************************************)
(* Properties of the CRUD services                                         *)
(***************************************************************************)
MaxIdOf(lst) ==
    IF lst = <<>> THEN 0
    ELSE CHOOSE m \in {lst[i].id : i \in 1..Len(lst)} :
            \A i \in 1..Len(lst) : lst[i].id <= m

UniqueIds(lst) ==
    \A i, j \in 1..Len(lst) : i # j => lst[i].id # lst[j].id

HasId(lst, id) == \E i \in 1..Len(lst) : lst[i].id = id

\* The body of a create-user request passes the service's own validation.
UserBodyAccepted(body) ==
    IF svc = "flask"
    THEN body.name # "" /\ body.email # ""
    ELSE body.name # "" /\ body.email # "" /\ body.age \in 0..150

\* The status of a rejected body: 400 in the Flask script, 422 from the
\* FastAPI request validation.
RejectedStatus == IF svc = "flask" THEN 400 ELSE 422

\* lst2 is lst1 with exactly the record at index k taken out.
RemovedOne(lst1, lst2, k) ==
    /\ Len(lst2) = Len(lst1) - 1
    /\ \A j \in 1..(k - 1) : lst2[j] = lst1[j]
    /\ \A j \in k..Len(lst2) : lst2[j] = lst1[j + 1]

\* C1: a create-user request with a well-formed body whose email is the email
\* of no user in the list is answered 201, the record is appended, and its
\* identifier is strictly greater than every identifier in the list before.
C1_FreshEmailCreatesAboveMax ==
    [][(/\ req'.op = "create_user"
        /\ UserBodyAccepted(req'.body[1])
        /\ ~\E i \in 1..Len(users) : users[i].email = req'.body[1].email)
       => (/\ resp'.status = 201
           /\ Len(resp'.body) = 1
           /\ users' = Append(users, resp'.body[1])
           /\ resp'.body[1].id > MaxIdOf(users))]_vars

\* C2 as stated: every create-user request whose email is the email of a user
\* in the list is answered 409 and leaves both lists as they were.
C2_DuplicateEmailAlways409 ==
    [][(/\ req'.op = "create_user"
        /\ \E i \in 1..Len(users) : users[i].email = req'.body[1].email)
       => (resp'.status = 409 /\ users' = users /\ posts' = posts)]_vars

\* C2 amended: a create-user request whose email is the email of a user in
\* the list never changes either list; it is answered 409 when the rest of
\* the body passes validation, and with the validation error (400 in Flask,
\* 422 in FastAPI) when it does not.
C2_DuplicateEmailRejected ==
    [][(/\ req'.op = "create_user"
        /\ \E i \in 1..Len(users) : users[i].email = req'.body[1].email)
       => (/\ users' = users
           /\ posts' = posts
           /\ resp'.body = <<>>
           /\ resp'.status = IF UserBodyAccepted(req'.body[1])
                             THEN 409 ELSE RejectedStatus)]_vars

\* A duplicate of the second user's email has just been answered 409.
C2_Witness ==
    /\ req.op = "create_user"
    /\ resp.status = 409
    /\ Len(users) = 2
    /\ users[2].email = req.body[1].email

\* C3: right after a delete-user request for i was answered 204, a get-user
\* request for i is answered 404.
C3_DeletedUserNotFound ==
    (req.op = "delete_user" /\ resp.status = 204)
        => GetById(users, req.id).status = 404

\* C4: a create-post request with a well-formed body whose user_id is the
\* identifier of no user in the list (and, in FastAPI, with the dependency's
\* query parameter present) is answered 404 and appends nothing.
C4_UnknownUserIdRejected ==
    [][(/\ req'.op = "create_post"
        /\ req'.body[1].title # ""
        /\ req'.body[1].content # ""
        /\ req'.body[1].user_id >= 1
        /\ svc = "fastapi" => req'.q # Missing
        /\ ~HasId(users, req'.body[1].user_id))
       => (resp'.status = 404 /\ posts' = posts)]_vars

\* C5: right after a create request was answered 201 with identifier i, a
\* get-by-id request for i returns a record with the fields just posted.
C5_RoundTrip ==
    /\ (req.op = "create_user" /\ resp.status = 201) =>
          LET got == GetById(users, resp.body[1].id) IN
          /\ got.status = 200
          /\ got.body[1].name = req.body[1].name
          /\ got.body[1].email = req.body[1].email
          /\ svc = "fastapi" => got.body[1].age = req.body[1].age
    /\ (req.op = "create_post" /\ resp.status = 201) =>
          LET got == GetById(posts, resp.body[1].id) IN
          /\ got.status = 200
          /\ got.body[1].title = req.body[1].title
          /\ got.body[1].content = req.body[1].content
          /\ got.body[1].user_id = req.body[1].user_id

\* C6: no two users have the same identifier and no two posts have the same
\* identifier.
C6_IdentifiersUnique == UniqueIds(users) /\ UniqueIds(posts)

\* C7: a successful create is never assigned the identifier of a record
\* deleted earlier from the same list.
C7_NoReuseAfterDelete ==
    /\ (req.op = "create_user" /\ resp.status = 201)
          => resp.body[1].id \notin deleted_users
    /\ (req.op = "create_post" /\ resp.status = 201)
          => resp.body[1].id \notin deleted_posts

\* The delete contract of one list: 204 and exactly one record with the
\* identifier taken out when some record has it, 404 and no change when
\* none has; the other list is untouched either way.
DeleteContract(id, status, lst, lstAfter, other, otherAfter) ==
    /\ otherAfter = other
    /\ IF HasId(lst, id)
       THEN /\ status = 204
            /\ \E k \in 1..Len(lst) : lst[k].id = id /\ RemovedOne(lst, lstAfter, k)
       ELSE status = 404 /\ lstAfter = lst

\* C8 as stated: the delete contract holds for users and for posts in both
\* services.
C8_DeleteContractEverywhere ==
    [][/\ req'.op = "delete_user" =>
            DeleteContract(req'.id, resp'.status, users, users', posts, posts')
       /\ req'.op = "delete_post" =>
            DeleteContract(req'.id, resp'.status, posts, posts', users, users')]_vars

\* C8 amended: the delete contract holds for users in both services and for
\* posts in the FastAPI service; the Flask service has no delete-post route,
\* so a delete-post request there is answered 405 and changes neither list.
C8_DeleteContract ==
    [][/\ req'.op = "delete_user" =>
            DeleteContract(req'.id, resp'.status, users, users', posts, posts')
       /\ (req'.op = "delete_post" /\ svc = "fastapi") =>
            DeleteContract(req'.id, resp'.status, posts, posts', users, users')
       /\ (req'.op = "delete_post" /\ svc = "flask") =>
            (resp'.status = 405 /\ users' = users /\ posts' = posts)]_vars

\* A user was just deleted from a list in which another record, with the
\* same identifier, stays, while a post is stored.
C8_Witness ==
    /\ req.op = "delete_user"
    /\ resp.status = 204
    /\ HasId(users, req.id)
    /\ Len(posts) = 1


(***************************************************************************)
(* http_demo.py: texts are sequences of characters                         *)
(***************************************************************************)
MaxHeaders == 2

SP == " "
CR == "\r"
LF == "\n"
CRLF == <<CR, LF>>
Colon == ":"

\* The characters str.strip() removes (with \x0b, \x0c and the other
\* Unicode spaces, which the model's texts do not hold).
Whitespace == {SP, "\t", CR, LF}

\* sep.join(parts)
RECURSIVE Join(_, _)
Join(parts, sep) ==
    IF Len(parts) = 0 THEN <<>>
    ELSE IF Len(parts) = 1 THEN parts[1]
    ELSE parts[1] \o sep \o Join(Tail(parts), sep)

\* The first position >= from at which sep occurs in s, 0 when there is none.
FindFrom(s, sep, from) ==
    LET at(i) == SubSeq(s, i, i + Len(sep) - 1) = sep
        last == Len(s) - Len(sep) + 1
    IN  IF \E i \in from..last : at(i)
        THEN CHOOSE i \in from..last : at(i) /\ \A j \in from..(i - 1) : ~at(j)
        ELSE 0

\* s.split(sep, maxsplit) of the text from position start on: the separators
\* are found left to right and do not overlap; a negative maxsplit is no
\* limit.
RECURSIVE SplitFrom(_, _, _, _)
SplitFrom(s, sep, maxsplit, start) ==
    IF maxsplit = 0 \/ FindFrom(s, sep, start) = 0
    THEN <<SubSeq(s, start, Len(s))>>
    ELSE <<SubSeq(s, start, FindFrom(s, sep, start) - 1)>>
            \o SplitFrom(s, sep, maxsplit - 1, FindFrom(s, sep, start) + Len(sep))

Split(s, sep, maxsplit) == SplitFrom(s, sep, maxsplit, 1)

\* s.strip()
RECURSIVE LStrip(_)
LStrip(s) ==
    IF Len(s) > 0 /\ s[1] \in Whitespace THEN LStrip(Tail(s)) ELSE s

RECURSIVE RStrip(_)
RStrip(s) ==
    IF Len(s) > 0 /\ s[Len(s)] \in Whitespace
    THEN RStrip(SubSeq(s, 1, Len(s) - 1)) ELSE s

Strip(s) == LStrip(RStrip(s))

Digits == <<"0", "1", "2", "3", "4", "5", "6", "7", "8", "9">>
IsDigit(c) == \E d \in 1..10 : Digits[d] = c
DigitValue(c) == (CHOOSE d \in 1..10 : Digits[d] = c) - 1

\* int(s) of a text of decimal digits; any other text raises ValueError
\* (a sign, surrounding spaces and underscores, which int() also reads, do
\* not occur in a status code cut out by split(' ')).
IsInt(s) == Len(s) > 0 /\ \A i \in 1..Len(s) : IsDigit(s[i])

RECURSIVE IntOf(_)
IntOf(s) ==
    IF Len(s) = 0 THEN 0
    ELSE 10 * IntOf(SubSeq(s, 1, Len(s) - 1)) + DigitValue(s[Len(s)])

\* str(n) for n >= 0
RECURSIVE StrOf(_)
StrOf(n) ==
    IF n < 10 THEN <<Digits[n + 1]>>
    ELSE StrOf(n \div 10) \o <<Digits[(n % 10) + 1]>>

(***************************************************************************)
(* parse_http_response                                                     *)
(***************************************************************************)
\* A status line cut at every space.
StatusSplitEverySpace(status_line) == Split(status_line, <<SP>>, -1)

\* status_line.split(' ', 2)
StatusSplit(status_line) == Split(status_line, <<SP>>, 2)

\* A header line cut at every colon, the value being the piece after the
\* first one.
HeaderSplitEveryColon(line) == Split(line, <<Colon>>, -1)

\* line.split(':', 1)
HeaderSplit(line) == Split(line, <<Colon>>, 1)

\* A dict is the set of its <<key, value>> pairs.
DictSet(dict, key, value) ==
    {kv \in dict : kv[1] # key} \cup {<<key, value>>}

\* The loop over enumerate(lines[1:], 1), as far as the headers go: the
\* lines k..Len(lines) of the (1-based) sequence are still to be read.
RECURSIVE ReadHeaders(_, _, _)
ReadHeaders(lines, k, headers) ==
    IF k > Len(lines) THEN headers
    ELSE IF lines[k] = <<>> THEN headers
    ELSE IF \E c \in 1..Len(lines[k]) : lines[k][c] = Colon
    THEN ReadHeaders(lines, k + 1,
            DictSet(headers, Strip(HeaderSplit(lines[k])[1]),
                             Strip(HeaderSplit(lines[k])[2])))
    ELSE ReadHeaders(lines, k + 1, headers)

\* body_start, an index into the Python (0-based) list: one past the first
\* empty line after the status line, 0 when there is none.
BodyStart(lines) ==
    IF \E k \in 2..Len(lines) : lines[k] = <<>>
    THEN CHOOSE b \in 2..Len(lines) :
            /\ lines[b] = <<>>
            /\ \A k \in 2..(b - 1) : lines[k] # <<>>
    ELSE 0

ValueError == [raised |-> "ValueError"]

parse_http_response(text) ==
    LET lines == Split(text, CRLF, -1)
        status == StatusSplit(lines[1])
    IN  IF Len(status) # 3 THEN ValueError
        ELSE IF ~IsInt(status[2]) THEN ValueError
        ELSE [protocol |-> status[1],
              status_code |-> IntOf(status[2]),
              status_message |-> status[3],
              headers |-> ReadHeaders(lines, 2, {}),
              body |-> Join(SubSeq(lines, BodyStart(lines) + 1, Len(lines)), CRLF)]

\* Literal texts
HTTP11 == <<"H", "T", "T", "P", "/", "1", ".", "1">>
REASON_OK == <<"O", "K">>
REASON_NF == <<"N", "o", "t", " ", "F", "o", "u", "n", "d">>
KEY_CT == <<"C", "o", "n", "t", "e", "n", "t", "-", "T", "y", "p", "e">>
RAW_TP == <<" ", "t", "e", "x", "t", "/", "p", "l", "a", "i", "n">>
VAL_TP == <<"t", "e", "x", "t", "/", "p", "l", "a", "i", "n">>
BODY_HELLO == <<"h", "e", "l", "l", "o">>

\* The response texts parse_http_response is applied to: a status line,
\* header lines, a blank line and a body, joined by CRLF.
Protocols == {HTTP11}
StatusCodes == {[text |-> <<"2", "0", "0">>, value |-> 200],
                [text |-> <<"4", "0", "4">>, value |-> 404]}
Reasons == {REASON_OK, REASON_NF}
\* A header line is key ":" raw; value is what the mapping should hold.
HeaderCases ==
    {[key |-> KEY_CT, raw |-> RAW_TP, value |-> VAL_TP],
     [key |-> KEY_CT, raw |-> <<SP, SP, "x", SP>>, value |-> <<"x">>],
     [key |-> <<"L">>, raw |-> <<SP, "a", Colon, "b">>, value |-> <<"a", Colon, "b">>],
     [key |-> <<"E">>, raw |-> <<>>, value |-> <<>>]}
Bodies ==
    {<<>>, BODY_HELLO,
     <<"a", CR, LF, "b">>,
     <<CR, LF, CR, LF, "k", Colon, "v", CR, LF>>}

HeaderLists ==
    UNION {[1..n -> HeaderCases] : n \in 0..MaxHeaders}

HeaderLine(h) == h.key \o <<Colon>> \o h.raw

RECURSIVE HeaderBlock(_)
HeaderBlock(hs) ==
    IF Len(hs) = 0 THEN <<>>
    ELSE HeaderLine(hs[1]) \o CRLF \o HeaderBlock(Tail(hs))

ResponseText(smp) ==
    smp.protocol \o <<SP>> \o smp.code.text \o <<SP>> \o smp.reason \o CRLF
        \o HeaderBlock(smp.headers) \o CRLF \o smp.body

InitParse ==
    /\ svc = "none"
    /\ users = <<>>
    /\ posts = <<>>
    /\ req = NoRequest
    /\ resp = NoResponse
    /\ deleted_users = {}
    /\ deleted_posts = {}
    /\ sample \in [protocol : Protocols, code : StatusCodes, reason : Reasons,
                   headers : HeaderLists, body : Bodies]
    /\ response = ResponseText(sample)
    /\ parsed = <<>>
    /\ call = <<>>
    /\ wire = <<>>
    /\ SocketIdle
    /\ ThreadsIdle

Parse ==
    /\ parsed = <<>>
    /\ parsed' = <<parse_http_response(response)>>
    /\ UNCHANGED <<crud_vars, request_vars, response, sample,
                   socket_vars, thread_vars>>

NextParse == Parse

SpecParse == InitParse /\ [][NextParse]_vars

\* The mapping the header lines of a sample stand for: each key with the
\* value of its last line.
ExpectedHeaders(hs) ==
    {<<hs[i].key, hs[i].value>> : i \in
        {i \in 1..Len(hs) : \A j \in (i + 1)..Len(hs) : hs[j].key # hs[i].key}}

\* C9: applied to a text of the form status line, header lines, blank line,
\* body, parse_http_response returns the protocol, the status code as an
\* integer, the whole reason phrase, the mapping of the header lines (key and
\* value stripped, cut at the first colon) and the body character for
\* character.
C9_ParseResponse ==
    parsed # <<>> =>
        parsed[1] = [protocol |-> sample.protocol,
                     status_code |-> sample.code.value,
                     status_message |-> sample.reason,
                     headers |-> ExpectedHeaders(sample.headers),
                     body |-> sample.body]

\* The example of the specification has been parsed: 'HTTP/1.1 200 OK',
\* 'Content-Type: text/plain', body 'hello'.
C9_Witness ==
    /\ parsed # <<>>
    /\ response = HTTP11 \o <<SP, "2", "0", "0", SP, "O", "K">> \o CRLF
                    \o KEY_CT \o <<Colon>> \o RAW_TP \o CRLF \o CRLF \o BODY_HELLO
    /\ parsed[1].status_code = 200
    /\ parsed[1].status_message = REASON_OK
    /\ parsed[1].headers = {<<KEY_CT, VAL_TP>>}
    /\ parsed[1].body = BODY_HELLO

\* A response whose reason phrase holds a space, with a header value that
\* holds a colon and a body that holds a blank line, has been parsed.
C9_WitnessHard ==
    /\ parsed # <<>>
    /\ sample.reason = REASON_NF
    /\ \E i \in 1..Len(sample.headers) : Colon \in {sample.headers[i].value[c] : c \in 1..Len(sample.headers[i].value)}
    /\ Len(sample.body) > 4
    /\ SubSeq(sample.body, 1, 4) = CRLF \o CRLF


(***************************************************************************)
(* make_http_request: the request text and what is written to the socket   *)
(***************************************************************************)
MaxCallerHeaders == 2

\* Literal texts of the request
GET == <<"G", "E", "T">>
POST == <<"P", "O", "S", "T">>
HOST == <<"h", ".", "i", "o">>
PATH_ROOT == <<"/">>
PATH_GET == <<"/", "g", "e", "t">>
HTTP11_SUFFIX == <<" ", "H", "T", "T", "P", "/", "1", ".", "1">>
HOST_PREFIX == <<"H", "o", "s", "t", ":", " ">>
CONNECTION_CLOSE == <<"C", "o", "n", "n", "e", "c", "t", "i", "o", "n", ":", " ", "c", "l", "o", "s", "e">>
CONTENT_LENGTH_PREFIX == <<"C", "o", "n", "t", "e", "n", "t", "-", "L", "e", "n", "g", "t", "h", ":", " ">>
KEY_ACCEPT == <<"A", "c", "c", "e", "p", "t">>
VAL_ANY == <<"*", "/", "*">>
KEY_X == <<"X", "-", "I", "d">>
VAL_7 == <<"7">>
BODY_JSON == <<"{", "a", "}">>

\* A character outside ASCII, and the two bytes of its UTF-8 encoding.
E_ACUTE == "e'"
UTF8(c) == IF c = E_ACUTE THEN <<"0xC3", "0xA9">> ELSE <<c>>

\* request.encode()
RECURSIVE Encode(_)
Encode(text) ==
    IF Len(text) = 0 THEN <<>>
    ELSE IF Len(text) = 1 THEN UTF8(text[1])
    ELSE Encode(SubSeq(text, 1, Len(text) \div 2))
            \o Encode(SubSeq(text, Len(text) \div 2 + 1, Len(text)))

\* The caller's header mapping in iteration order; <<>> is None or {}.
CallerHeaderPool ==
    {<<KEY_ACCEPT, VAL_ANY>>, <<KEY_X, VAL_7>>, <<KEY_CT, VAL_TP>>}
CallerHeaders ==
    {hs \in UNION {[1..n -> CallerHeaderPool] : n \in 0..MaxCallerHeaders} :
        \A i, j \in 1..Len(hs) : i # j => hs[i][1] # hs[j][1]}

\* body: None (given FALSE), or a text, which may be empty.
NoBody == [given |-> FALSE, text |-> <<>>]
RequestBodies ==
    {NoBody} \cup
    [given : {TRUE},
     text : {<<>>, BODY_JSON, <<"a", CR, LF, CR, LF, "b">>, <<E_ACUTE>>}]

\* urlparse(url), as far as the function reads it: hostname and path.
Urls == [hostname : {HOST}, path : {<<>>, PATH_ROOT, PATH_GET}]

Calls == [url : Urls, method : {GET, POST}, headers : CallerHeaders,
          body : RequestBodies]

\* if body: a body that is None or empty is falsy
Truthy(body) == body.given /\ Len(body.text) > 0

\* parsed.path or '/'
PathOf(url) == IF Len(url.path) = 0 THEN PATH_ROOT ELSE url.path

\* for key, value in headers.items(): f"{key}: {value}"
CallerLines(hs) == [i \in 1..Len(hs) |-> hs[i][1] \o <<Colon, SP>> \o hs[i][2]]

\* The tail of request_lines: Content-Length, "" and the body when there is
\* a body, the single "" when there is none.
BodyLines(body) ==
    IF Truthy(body)
    THEN <<CONTENT_LENGTH_PREFIX \o StrOf(Len(body.text)), <<>>, body.text>>
    ELSE << <<>> >>

\* request_lines
RequestLines(c) ==
    <<c.method \o <<SP>> \o PathOf(c.url) \o HTTP11_SUFFIX,
      HOST_PREFIX \o c.url.hostname,
      CONNECTION_CLOSE>>
        \o CallerLines(c.headers)
        \o BodyLines(c.body)

\* request = "\r\n".join(request_lines)
RequestText(c) == Join(RequestLines(c), CRLF)

InitRequest ==
    /\ svc = "none"
    /\ users = <<>>
    /\ posts = <<>>
    /\ req = NoRequest
    /\ resp = NoResponse
    /\ deleted_users = {}
    /\ deleted_posts = {}
    /\ response = <<>>
    /\ parsed = <<>>
    /\ sample = <<>>
    /\ call \in Calls
    /\ wire = <<>>
    /\ SocketIdle
    /\ ThreadsIdle

\* sock.sendall(request.encode())
SendRequest ==
    /\ wire = <<>>
    /\ wire' = Encode(RequestText(call))
    /\ UNCHANGED <<crud_vars, parse_vars, call, socket_vars, thread_vars>>

NextRequest == SendRequest

SpecRequest == InitRequest /\ [][NextRequest]_vars

\* The header block of a call as the claim lays it out, every line closed
\* by CRLF: request line, Host, Connection: close, the caller's headers,
\* and Content-Length only when there is a body.
RECURSIVE Lines(_)
Lines(ls) == IF Len(ls) = 0 THEN <<>> ELSE ls[1] \o CRLF \o Lines(Tail(ls))

ExpectedHead(c) ==
    Lines(<<c.method \o <<SP>> \o PathOf(c.url) \o HTTP11_SUFFIX,
            HOST_PREFIX \o c.url.hostname,
            CONNECTION_CLOSE>>)
        \o Lines(CallerLines(c.headers))
        \o (IF Truthy(c.body)
            THEN CONTENT_LENGTH_PREFIX \o StrOf(Len(c.body.text)) \o CRLF
            ELSE <<>>)

\* C10: what make_http_request writes is the header block (request line,
\* Host, Connection: close, caller headers, Content-Length only with a body)
\* closed by a blank line, with the body after it when there is one: the
\* bytes CRLF CRLF end the header block with and without a body.
C10_RequestWellFormed ==
    wire # <<>> =>
        wire = Encode(ExpectedHead(call) \o CRLF
                      \o (IF Truthy(call.body) THEN call.body.text ELSE <<>>))

\* What the code writes: with a body, the header block, a blank line and
\* the body; without one, the header block with no blank line after it.
RequestAsBuilt ==
    wire # <<>> =>
        wire = Encode(IF Truthy(call.body)
                      THEN ExpectedHead(call) \o CRLF \o call.body.text
                      ELSE ExpectedHead(call))


(***************************************************************************)
(* make_http_request, step by step: the socket and the receive loop        *)
(***************************************************************************)
MaxChunks == 2

\* What one recv(4096) can return while the peer sends: never empty. The
\* two bytes of one character may arrive in different chunks.
Chunks == {<<"a">>, <<"0xC3">>, <<"0xA9", "b">>}

\* urlparse(url) with its scheme, for the calls that are run step by step.
SocketCalls ==
    [url : [scheme : {"http", "https"}, hostname : {HOST}, path : {PATH_GET}],
     method : {GET}, headers : {<<>>},
     body : {NoBody, [given |-> TRUE, text |-> BODY_JSON]}]

\* bytes.decode('utf-8', errors='ignore'): a byte that starts or continues
\* no complete character is dropped.
RECURSIVE Decode(_)
Decode(bytes) ==
    IF Len(bytes) = 0 THEN <<>>
    ELSE IF bytes[1] = "0xC3"
    THEN IF Len(bytes) >= 2 /\ bytes[2] = "0xA9"
         THEN <<E_ACUTE>> \o Decode(SubSeq(bytes, 3, Len(bytes)))
         ELSE Decode(Tail(bytes))
    ELSE IF bytes[1] = "0xA9" THEN Decode(Tail(bytes))
    ELSE <<bytes[1]>> \o Decode(Tail(bytes))

\* A loop body that puts the new chunk in front.
Prepended(response_bytes, chunk) == chunk \o response_bytes

\* response += chunk
Accumulate(response_bytes, chunk) == response_bytes \o chunk

\* An exception raised inside the try block: the finally clause runs next.
RaiseInTry == exc' = TRUE /\ spc' = "finally"

\* Lines 35-41: for https the context and the socket are created here, for
\* http the socket; either constructor can raise, and then the function
\* holds no socket.
OpenSocket ==
    /\ spc = "start"
    /\ \/ /\ sock' = "open"
          /\ spc' = IF call.url.scheme = "https" THEN "wrap" ELSE "connect"
          /\ UNCHANGED exc
       \/ /\ spc' = "raised"
          /\ exc' = TRUE
          /\ UNCHANGED sock
    /\ UNCHANGED <<crud_vars, parse_vars, request_vars, thread_vars,
                   closes, buf, result, net, peer, arrived>>

\* Line 39, context.wrap_socket(sock, server_hostname=host): it stands
\* before the try statement, so an exception it raises leaves the function
\* without sock.close().
WrapSocket ==
    /\ spc = "wrap"
    /\ \/ spc' = "connect" /\ UNCHANGED exc
       \/ spc' = "raised" /\ exc' = TRUE
    /\ UNCHANGED <<crud_vars, parse_vars, request_vars, thread_vars,
                   sock, closes, buf, result, net, peer, arrived>>

\* Line 45, sock.connect((host, port))
Connect ==
    /\ spc = "connect"
    /\ \/ spc' = "send" /\ UNCHANGED exc
       \/ RaiseInTry
    /\ UNCHANGED <<crud_vars, parse_vars, request_vars, thread_vars,
                   sock, closes, buf, result, net, peer, arrived>>

\* Lines 47-69: the request is built and sendall writes it; line 72 empties
\* response.
Send ==
    /\ spc = "send"
    /\ \/ /\ wire' = Encode(RequestText(call))
          /\ spc' = "recv"
          /\ UNCHANGED exc
       \/ RaiseInTry /\ UNCHANGED wire
    /\ buf' = <<>>
    /\ UNCHANGED <<crud_vars, parse_vars, thread_vars, call,
                   sock, closes, result, net, peer, arrived>>

\* Lines 73-77, one turn of the loop. recv blocks while the peer has sent
\* nothing and holds its end open; it returns the next chunk, or b"" once
\* the peer has closed and nothing is left, or raises on a reset.
Recv ==
    /\ spc = "recv"
    /\ \/ /\ net # <<>>
          /\ buf' = Accumulate(buf, Head(net))
          /\ arrived' = Append(arrived, Head(net))
          /\ net' = Tail(net)
          /\ UNCHANGED <<spc, exc>>
       \/ /\ net = <<>>
          /\ peer = "closed"
          /\ spc' = "decode"
          /\ UNCHANGED <<exc, buf, arrived, net>>
       \/ /\ peer = "reset"
          /\ RaiseInTry
          /\ UNCHANGED <<buf, arrived, net>>
    /\ UNCHANGED <<crud_vars, parse_vars, request_vars, thread_vars,
                   sock, closes, result, peer>>

\* Line 79: return response.decode('utf-8', errors='ignore'); the finally
\* clause runs before the value is handed back.
DecodeResponse ==
    /\ spc = "decode"
    /\ result' = <<Decode(buf)>>
    /\ spc' = "finally"
    /\ UNCHANGED <<crud_vars, parse_vars, request_vars, thread_vars,
                   sock, closes, exc, buf, net, peer, arrived>>

\* Lines 81-82: sock.close(), then the value is returned or the exception
\* goes on to the caller.
Finally ==
    /\ spc = "finally"
    /\ sock' = "closed"
    /\ closes' = closes + 1
    /\ spc' = IF exc THEN "raised" ELSE "returned"
    /\ UNCHANGED <<crud_vars, parse_vars, request_vars, thread_vars,
                   exc, buf, result, net, peer, arrived>>

\* The peer, once the connection stands: it sends a chunk, closes its end,
\* or the connection is reset.
PeerSend ==
    /\ spc \in {"send", "recv"}
    /\ peer = "open"
    /\ Len(net) + Len(arrived) < MaxChunks
    /\ \E chunk \in Chunks : net' = Append(net, chunk)
    /\ UNCHANGED <<crud_vars, parse_vars, request_vars, thread_vars,
                   spc, sock, closes, exc, buf, result, peer, arrived>>

PeerClose ==
    /\ spc \in {"send", "recv"}
    /\ peer = "open"
    /\ peer' = "closed"
    /\ UNCHANGED <<crud_vars, parse_vars, request_vars, thread_vars,
                   spc, sock, closes, exc, buf, result, net, arrived>>

PeerReset ==
    /\ spc \in {"send", "recv"}
    /\ peer = "open"
    /\ peer' = "reset"
    /\ UNCHANGED <<crud_vars, parse_vars, request_vars, thread_vars,
                   spc, sock, closes, exc, buf, result, net, arrived>>

InitSocket ==
    /\ svc = "none"
    /\ users = <<>>
    /\ posts = <<>>
    /\ req = NoRequest
    /\ resp = NoResponse
    /\ deleted_users = {}
    /\ deleted_posts = {}
    /\ response = <<>>
    /\ parsed = <<>>
    /\ sample = <<>>
    /\ call \in SocketCalls
    /\ wire = <<>>
    /\ spc = "start"
    /\ sock = "none"
    /\ closes = 0
    /\ exc = FALSE
    /\ buf = <<>>
    /\ result = <<>>
    /\ net = <<>>
    /\ peer = "open"
    /\ arrived = <<>>
    /\ ThreadsIdle

\* The steps of the function itself.
ClientStep ==
    \/ OpenSocket
    \/ WrapSocket
    \/ Connect
    \/ Send
    \/ Recv
    \/ DecodeResponse
    \/ Finally

NextSocket ==
    \/ OpenSocket
    \/ WrapSocket
    \/ Connect
    \/ Send
    \/ Recv
    \/ DecodeResponse
    \/ Finally
    \/ PeerSend
    \/ PeerClose
    \/ PeerReset

\* Lines 73-82: the steps from the receive loop to the end of the call.
LoopStep ==
    \/ Recv
    \/ DecodeResponse
    \/ Finally

\* The function is a sequential program: once the request is sent, a step
\* that can run does run. The peer is under no obligation.
SpecSocket == InitSocket /\ [][NextSocket]_vars /\ WF_vars(LoopStep)

\* C11: when the call has returned or let its exception go on, a socket that
\* was opened has been closed, exactly once.
C11_SocketClosedOnce ==
    (spc \in {"returned", "raised"} /\ sock # "none")
        => (sock = "closed" /\ closes = 1)

\* What holds of the socket: it is closed exactly once on every path that
\* entered the try statement, and never more than once.
SocketClosedAfterTry ==
    /\ closes <= 1
    /\ spc = "returned" => (sock = "closed" /\ closes = 1)
    /\ (spc = "raised" /\ closes = 0 /\ sock = "open") => call.url.scheme = "https"


\* The chunks of a sequence, one after the other.
RECURSIVE Flatten(_)
Flatten(chunks) ==
    IF Len(chunks) = 0 THEN <<>> ELSE chunks[1] \o Flatten(Tail(chunks))

\* The loop waits in recv: nothing sent is left to read and the peer holds
\* its end open.
WaitingForPeer == spc = "recv" /\ net = <<>> /\ peer = "open"

Terminated == spc \in {"returned", "raised"}

\* C13: the call returns only after the peer closed the connection and
\* every chunk was read, and then its result is the received chunks in
\* arrival order, decoded as one text; while the peer holds the connection
\* open and sends nothing the function can take no step (no timeout, no
\* retry); and once the peer has closed or the connection is reset, the call
\* does end, by returning or by the error going on to the caller.
C13_ReceiveLoop ==
    /\ [](spc = "returned" =>
            /\ peer = "closed"
            /\ net = <<>>
            /\ result = <<Decode(Flatten(arrived))>>)
    /\ [](WaitingForPeer => ~ENABLED ClientStep)
    /\ ((spc = "recv" /\ peer # "open") ~> Terminated)

\* The call returned a text whose one non-ASCII character arrived in two
\* chunks.
C13_Witness ==
    /\ spc = "returned"
    /\ arrived = <<<<"0xC3">>, <<"0xA9", "b">>>>
    /\ result = <<<<E_ACUTE, "b">>>>

(***************************************************************************)
(* Concurrent create requests                                              *)
(***************************************************************************)
\* How many records a list holds at most once every create under way has
\* appended.
MaxRace == 2

\* The bodies of the concurrent requests: valid ones and one the validation
\* turns away.
RaceUserBodies ==
    [name : {"ann"}, email : {"a@x", "b@x"}, age : {30}]
        \cup {[name |-> "", email |-> "a@x", age |-> 30]}

RacePostBodies ==
    [title : {"t1"}, content : {"c1"}, user_id : {1, 2}]
        \cup {[title |-> "", content |-> "c1", user_id |-> 1]}

\* Where a thread is inside create_user and inside create_post.
InCreateUser == {"check_email", "build_user", "append_user"}
InCreatePost == {"find_user", "build_post", "append_post"}

InFlight(positions) == Cardinality({t \in Threads : tpc[t] \in positions})

\* The thread goes on to the position pos of its handler.
Goto(t, pos) == tpc' = [tpc EXCEPT ![t] = pos]

\* The thread leaves its handler.
Leave(t) ==
    /\ tpc' = [tpc EXCEPT ![t] = "idle"]
    /\ treq' = [treq EXCEPT ![t] = <<>>]
    /\ tnew' = [tnew EXCEPT ![t] = <<>>]

\* history: what thread t reads now (the length of a list, or that an email
\* is not in use) was read the same by another thread that has not appended
\* yet.
Overlaps(what, cond) ==
    overlap' = IF cond THEN overlap \cup {what} ELSE overlap

\* The development server answers every request in a thread of its own
\* (app.run), and the handlers take no lock: between two statements of one
\* handler the other thread can run.
\* create_user, lines 103-113: the body and its required fields.
Flask_create_user_validate(t) ==
    /\ svc = "flask"
    /\ tpc[t] = "idle"
    /\ Len(users) + InFlight(InCreateUser) < MaxRace
    /\ \E data \in RaceUserBodies :
        IF FlaskFalsy(data.name) \/ FlaskFalsy(data.email)
        THEN /\ Request("create_user", Missing, Missing, <<data>>)
             /\ Reply(400, <<>>)
             /\ UNCHANGED <<tpc, treq>>
        ELSE /\ Goto(t, "check_email")
             /\ treq' = [treq EXCEPT ![t] = <<data>>]
             /\ UNCHANGED <<req, resp>>
    /\ UNCHANGED <<svc, users, posts, deleted_users, deleted_posts,
                   parse_vars, request_vars, socket_vars, tnew, overlap>>

\* create_user, lines 115-117: the duplicate-email check
Flask_create_user_check(t) ==
    /\ tpc[t] = "check_email"
    /\ IF EmailExists(users, treq[t][1].email)
       THEN /\ Request("create_user", Missing, Missing, treq[t])
            /\ Reply(409, <<>>)
            /\ Leave(t)
            /\ UNCHANGED overlap
       ELSE /\ Goto(t, "build_user")
            /\ Overlaps("email",
                    \E u \in Threads \ {t} :
                        /\ tpc[u] \in {"build_user", "append_user"}
                        /\ treq[u][1].email = treq[t][1].email)
            /\ UNCHANGED <<req, resp, treq, tnew>>
    /\ UNCHANGED <<svc, users, posts, deleted_users, deleted_posts,
                   parse_vars, request_vars, socket_vars>>

\* create_user, lines 119-124: new_user, with 'id': len(users) + 1
Flask_create_user_build(t) ==
    /\ tpc[t] = "build_user"
    /\ tnew' = [tnew EXCEPT ![t] = <<FlaskNewUser(treq[t][1])>>]
    /\ Goto(t, "append_user")
    /\ Overlaps("users",
            \E u \in Threads \ {t} :
                tpc[u] = "append_user" /\ tnew[u][1].id = NextId(users))
    /\ UNCHANGED <<crud_vars, parse_vars, request_vars, socket_vars, treq>>

\* create_user, lines 126-129: users.append(new_user) and the answer
Flask_create_user_append(t) ==
    /\ tpc[t] = "append_user"
    /\ users' = Append(users, tnew[t][1])
    /\ Request("create_user", Missing, Missing, treq[t])
    /\ Reply(201, tnew[t])
    /\ Leave(t)
    /\ UNCHANGED <<svc, posts, deleted_users, deleted_posts,
                   parse_vars, request_vars, socket_vars, overlap>>

\* create_post, lines 218-232: the body and its required fields
Flask_create_post_validate(t) ==
    /\ svc = "flask"
    /\ tpc[t] = "idle"
    /\ Len(posts) + InFlight(InCreatePost) < MaxRace
    /\ \E data \in RacePostBodies :
        IF \/ FlaskFalsy(data.title)
           \/ FlaskFalsy(data.content)
           \/ FlaskFalsyInt(data.user_id)
        THEN /\ Request("create_post", Missing, Missing, <<data>>)
             /\ Reply(400, <<>>)
             /\ UNCHANGED <<tpc, treq>>
        ELSE /\ Goto(t, "find_user")
             /\ treq' = [treq EXCEPT ![t] = <<data>>]
             /\ UNCHANGED <<req, resp>>
    /\ UNCHANGED <<svc, users, posts, deleted_users, deleted_posts,
                   parse_vars, request_vars, socket_vars, tnew, overlap>>

\* create_post, lines 234-237: the author is looked up
Flask_create_post_find(t) ==
    /\ tpc[t] = "find_user"
    /\ IF FindById(users, treq[t][1].user_id) = 0
       THEN /\ Request("create_post", Missing, Missing, treq[t])
            /\ Reply(404, <<>>)
            /\ Leave(t)
       ELSE /\ Goto(t, "build_post")
            /\ UNCHANGED <<req, resp, treq, tnew>>
    /\ UNCHANGED <<svc, users, posts, deleted_users, deleted_posts,
                   parse_vars, request_vars, socket_vars, overlap>>

\* create_post, lines 239-246: new_post, with 'id': len(posts) + 1. No user
\* is removed or moved while creates run, so the user found on line 235 is
\* still the first one with that identifier.
Flask_create_post_build(t) ==
    /\ tpc[t] = "build_post"
    /\ tnew' = [tnew EXCEPT ![t] = <<FlaskNewPost(treq[t][1])>>]
    /\ Goto(t, "append_post")
    /\ Overlaps("posts",
            \E u \in Threads \ {t} :
                tpc[u] = "append_post" /\ tnew[u][1].id = NextId(posts))
    /\ UNCHANGED <<crud_vars, parse_vars, request_vars, socket_vars, treq>>

\* create_post, lines 248-250: posts.append(new_post) and the answer
Flask_create_post_append(t) ==
    /\ tpc[t] = "append_post"
    /\ posts' = Append(posts, tnew[t][1])
    /\ Request("create_post", Missing, Missing, treq[t])
    /\ Reply(201, tnew[t])
    /\ Leave(t)
    /\ UNCHANGED <<svc, users, deleted_users, deleted_posts,
                   parse_vars, request_vars, socket_vars, overlap>>

\* The FastAPI handlers are coroutines without an await: the event loop runs
\* each of them from its first statement to its last before it turns to
\* another request, so a whole handler is one step.
NextRace ==
    \/ \E t \in Threads : Flask_create_user_validate(t)
    \/ \E t \in Threads : Flask_create_user_check(t)
    \/ \E t \in Threads : Flask_create_user_build(t)
    \/ \E t \in Threads : Flask_create_user_append(t)
    \/ \E t \in Threads : Flask_create_post_validate(t)
    \/ \E t \in Threads : Flask_create_post_find(t)
    \/ \E t \in Threads : Flask_create_post_build(t)
    \/ \E t \in Threads : Flask_create_post_append(t)
    \/ FastAPI_create_user /\ Untracked
    \/ FastAPI_create_post /\ Untracked

SpecRace == Init /\ [][NextRace]_vars

\* The records that the threads at this position are about to append.
Pending(position) ==
    (IF tpc[1] = position THEN tnew[1] ELSE <<>>)
        \o (IF tpc[2] = position THEN tnew[2] ELSE <<>>)

\* The emails of the threads that passed the duplicate-email check and have
\* not appended yet.
PendingEmails ==
    (IF tpc[1] \in {"build_user", "append_user"}
     THEN <<[email |-> treq[1][1].email]>> ELSE <<>>)
        \o (IF tpc[2] \in {"build_user", "append_user"}
            THEN <<[email |-> treq[2][1].email]>> ELSE <<>>)

StoredEmails == [i \in 1..Len(users) |-> [email |-> users[i].email]]

SameEmail(lst) ==
    \E i, j \in 1..Len(lst) : i < j /\ lst[i].email = lst[j].email

\* C12: with creates only (no deletion), the records stored in a list
\* together with those about to be appended carry one identifier twice
\* exactly when two handlers read the same length of the list before either
\* appended, both taking the identifier len+1; the users stored or about to
\* be stored carry one email twice exactly when two handlers passed the
\* duplicate-email check for it before either appended; handlers that run
\* one after the other, and the FastAPI handlers, produce neither.
C12_RaceOnIdentifiers ==
    /\ deleted_users = {} /\ deleted_posts = {}
    /\ "users" \in overlap <=> ~UniqueIds(users \o Pending("append_user"))
    /\ "posts" \in overlap <=> ~UniqueIds(posts \o Pending("append_post"))
    /\ "email" \in overlap <=> SameEmail(StoredEmails \o PendingEmails)
    /\ svc = "fastapi" => overlap = {}

\* Two users with one identifier and one email are stored, and nothing was
\* ever deleted.
C12_Witness ==
    /\ svc = "flask"
    /\ deleted_users = {}
    /\ Len(users) = 2
    /\ users[1].id = users[2].id
    /\ users[1].email = users[2].email
    /\ overlap = {"users", "email"}

====
